---------------------------- MODULE Spec2Model ----------------------------
(***************************************************************************)
(* A model of gitzip (src/src/gitzip/gitzip.py): one run of main(), from   *)
(* the parsed arguments to the process exit code.                          *)
(*                                                                         *)
(* Strings whose characters matter (candidate paths, the manifest text,    *)
(* the diff output) are sequences of one-character strings, so that        *)
(* splitting on "\n" and on "/" is computed and not assumed.  A path       *)
(* component is such a string; a resolved path is the sequence of its      *)
(* components below the root.                                              *)
(***************************************************************************)
EXTENDS Integers, Sequences, FiniteSets, TLC

(***************************************************************************)
(* Bounds                                                                  *)
(***************************************************************************)
\* the largest number of candidate paths in the manifest / the diff output
MaxFiles == 2

(***************************************************************************)
(* Program constants                                                       *)
(***************************************************************************)
EXIT_CODE_NOT_ENOUGH_ARGUMENTS == 2
EXIT_CODE_FILE_EXISTS == 4
\* exit status of the interpreter when an exception is not caught by main
EXIT_CODE_UNCAUGHT == 1
EXIT_CODE_SUCCESS == 0
\* logging levels
INFO == 20
WARNING == 30
GIT_BRANCH_SHOW_CURRENT_MIN_VER == <<2, 22>>

\* Python's None, and how an f-string prints an optional value
None == "<None>"
Truthy(x) == x # None /\ x # ""
Format(x) == IF x = None THEN "None" ELSE x

NL == "\n"
SEP == "/"

(***************************************************************************)
(* The environment of the run: the file system, the working directory,     *)
(* the home directory and the process environment.                         *)
(***************************************************************************)
getcwd == << <<"r">> >>
HomeDir == << <<"h">> >>
\* os.environ: H=/h
environ == [n \in { <<"H">> } |-> <<"/", "h">>]

Directories ==
    { <<>>, << <<"r">> >>, << <<"r">>, <<"s">> >>, << <<"o">> >>, << <<"p">> >>,
      << <<"r", "2">> >>, << <<"r", "2">>, <<"s">> >>, << <<"h">> >> }
\* readable regular files
RegularFiles ==
    { << <<"r">>, <<"a">> >>, << <<"r">>, <<"s">>, <<"b">> >>,
      << <<"o">>, <<"x">> >>, << <<"p">>, <<"x">> >>,
      << <<"r", "2">>, <<"s">>, <<"b">> >>, << <<"h">>, <<"k">> >> }
\* regular files the process has no permission to read
UnreadableFiles == { << <<"r">>, <<"u">> >> }
\* symbolic links: /l -> /o
Symlinks == { << <<"l">> >> }
readlink(p) == << <<"o">> >>

\* the bytes of each readable regular file
FileData(p) ==
    CASE p = << <<"r">>, <<"a">> >> -> "A"
      [] p = << <<"r">>, <<"s">>, <<"b">> >> -> "B"
      [] p = << <<"o">>, <<"x">> >> -> "X1"
      [] p = << <<"p">>, <<"x">> >> -> "X2"
      [] p = << <<"r", "2">>, <<"s">>, <<"b">> >> -> "R"
      [] p = << <<"h">>, <<"k">> >> -> "K"
      [] OTHER -> ""

\* the manifest files that exist on disk
ManifestFiles == {"/r/m.txt"}

(***************************************************************************)
(* Strings                                                                 *)
(***************************************************************************)
RECURSIVE Split(_, _)
\* str.split(sep): "a\n" -> ["a", ""], "" -> [""]
Split(s, sep) ==
    IF s = <<>> THEN << <<>> >>
    ELSE LET rest == Split(Tail(s), sep)
         IN  IF Head(s) = sep THEN << <<>> >> \o rest
             ELSE << <<Head(s)>> \o Head(rest) >> \o Tail(rest)

RECURSIVE Join(_, _)
\* sep.join(parts)
Join(parts, sep) ==
    IF parts = <<>> THEN <<>>
    ELSE IF Len(parts) = 1 THEN Head(parts)
    ELSE Head(parts) \o <<sep>> \o Join(Tail(parts), sep)

RECURSIVE ReadLines(_)
\* iterating a text file: every line keeps its terminating "\n"
ReadLines(s) ==
    IF s = <<>> THEN <<>>
    ELSE IF \E i \in 1..Len(s) : s[i] = NL
         THEN LET i == CHOOSE k \in 1..Len(s) : s[k] = NL /\ \A j \in 1..(k-1) : s[j] # NL
              IN  <<SubSeq(s, 1, i)>> \o ReadLines(SubSeq(s, i + 1, Len(s)))
         ELSE <<s>>

(***************************************************************************)
(* Paths (pathlib.PurePosixPath / Path)                                    *)
(***************************************************************************)
\* Path(s): the root and the components; empty and "." components are
\* dropped by the parser ("a//b", "./a").  No input starts with exactly two
\* slashes, the one case POSIX keeps as a root of its own.
Path(s) ==
    [root  |-> s # <<>> /\ Head(s) = SEP,
     parts |-> SelectSeq(Split(s, SEP), LAMBDA c : c # <<>> /\ c # <<".">>)]

\* Path.expanduser(): a leading "~" component of a relative path becomes the
\* home directory.  ("~user" is not among the inputs.)
expanduser(p) ==
    IF ~p.root /\ p.parts # <<>> /\ Head(p.parts) = <<"~">>
    THEN [root |-> TRUE, parts |-> HomeDir \o Tail(p.parts)]
    ELSE p

RECURSIVE realpath(_, _)
\* os.path.realpath (non-strict): walk the components below `done`;
\* ".." drops the last resolved component, a symbolic link is replaced by
\* its resolved target.
realpath(done, rest) ==
    IF rest = <<>> THEN done
    ELSE LET comp == Head(rest)
             newpath == Append(done, comp)
         IN  IF comp = <<".", ".">>
             THEN realpath(IF done = <<>> THEN <<>> ELSE SubSeq(done, 1, Len(done) - 1),
                           Tail(rest))
             ELSE IF newpath \in Symlinks
             THEN realpath(realpath(<<>>, readlink(newpath)), Tail(rest))
             ELSE realpath(newpath, Tail(rest))

\* Path.resolve(): absolute (against the working directory), normalised,
\* symbolic links resolved; the path need not exist.  The result is the
\* sequence of components below the root.
resolve(p) == realpath(<<>>, IF p.root THEN p.parts ELSE getcwd \o p.parts)

\* expand_path(path) = Path(path).expanduser().resolve()
expand_path(path) == resolve(expanduser(Path(path)))

\* str() of an absolute path
PathStr(abs) == <<SEP>> \o Join(abs, SEP)

\* PurePath.parents of an absolute path: its proper ancestors, root included
parents(abs) == { SubSeq(abs, 1, k) : k \in 0..(Len(abs) - 1) }

\* PurePath.name: the final component, "" for the root
name(abs) == IF abs = <<>> THEN <<>> ELSE abs[Len(abs)]

\* abs.relative_to(rel) for rel an ancestor of abs
relative_to(abs, rel) == SubSeq(abs, Len(rel) + 1, Len(abs))

\* the legacy test `rel_path in source_path` on the two path strings:
\* substring containment
IsChild_substring(rel_path, abs) ==
    LET r == PathStr(rel_path)
        a == PathStr(abs)
    IN  \E i \in 1..Len(a) : i + Len(r) - 1 <= Len(a) /\ SubSeq(a, i, i + Len(r) - 1) = r

\* `rel_path in absolute_source_path.parents`
IsChild(rel_path, abs) == rel_path \in parents(abs)

\* the in-archive name of a resolved candidate, as ZipFile.write stores it
TargetPath(rel_path, abs) ==
    IF IsChild(rel_path, abs)
    THEN Join(relative_to(abs, rel_path), SEP)
    ELSE name(abs)

\* Path.is_file() that accepts anything that exists
is_file_exists(abs) == abs \in RegularFiles \cup UnreadableFiles \cup Directories

\* Path.is_file()
is_file(abs) == abs \in RegularFiles \cup UnreadableFiles

(***************************************************************************)
(* Environment variables, as the legacy resolver (src/gitzip/gitzip.py)    *)
(* expands them                                                            *)
(***************************************************************************)
\* the characters of \w that occur in the inputs
WordChars == {"a", "b", "h", "k", "l", "m", "o", "p", "r", "s", "u", "x", "2", "H"}

RECURSIVE expandvars(_)
\* os.path.expandvars: "$name" is replaced by the value of name when the
\* environment defines it and is left alone otherwise; the scan goes on
\* after the replacement.  (No input uses the "${name}" form.)
expandvars(s) ==
    IF s = <<>> THEN <<>>
    ELSE IF Head(s) # "$" THEN <<Head(s)>> \o expandvars(Tail(s))
    ELSE LET t == Tail(s)
             n == CHOOSE k \in 0..Len(t) :
                     /\ \A j \in 1..k : t[j] \in WordChars
                     /\ (k = Len(t) \/ t[k + 1] \notin WordChars)
             var == SubSeq(t, 1, n)
             rest == SubSeq(t, n + 1, Len(t))
         IN  IF var \in DOMAIN environ
             THEN environ[var] \o expandvars(rest)
             ELSE <<"$">> \o var \o expandvars(rest)

(***************************************************************************)
(* The file list providers                                                 *)
(***************************************************************************)
\* get_files_from_git that forgets to drop the empty lines
get_files_from_git_nofilter(out) == Split(out, NL)

\* get_files_from_git: the non-empty lines of the diff output
get_files_from_git(out) == SelectSeq(Split(out, NL), LAMBDA x : x # <<>>)

\* the diff command line
git_diff_cmd(commit, commit2) ==
    <<"git", "diff", commit>> \o (IF Truthy(commit2) THEN <<commit2>> ELSE <<>>)
        \o <<"--name-only">>

\* get_current_branch: the command chosen from the git version
get_current_branch_cmd(git_version) ==
    IF /\ Len(git_version) >= Len(GIT_BRANCH_SHOW_CURRENT_MIN_VER)
       /\ git_version[1] > GIT_BRANCH_SHOW_CURRENT_MIN_VER[1]
       /\ git_version[2] > GIT_BRANCH_SHOW_CURRENT_MIN_VER[2]
    THEN <<"git", "branch", "--show-current">>
    ELSE <<"git", "rev-parse", "--abbrev-ref", "HEAD">>

(***************************************************************************)
(* The inputs of a run                                                     *)
(***************************************************************************)
\* candidate path strings: "", a, s/b, s (a directory), /o/x, /p/x,
\* /r2/s/b, ~/k, $H/k (missing: the variable is not expanded), u (unreadable),
\* /l/../r/./a (through a link, "..", ".")
CandidatePaths ==
    { <<>>,
      <<"a">>,
      <<"s", "/", "b">>,
      <<"s">>,
      <<"/", "o", "/", "x">>,
      <<"/", "p", "/", "x">>,
      <<"/", "r", "2", "/", "s", "/", "b">>,
      <<"~", "/", "k">>,
      <<"$", "H", "/", "k">>,
      <<"u">>,
      <<"/", "l", "/", ".", ".", "/", "r", "/", ".", "/", "a">> }

\* the lists of at most MaxFiles candidate paths
CandidateLists == UNION { [1..n -> CandidatePaths] : n \in 0..MaxFiles }

\* the texts a manifest holds or the diff command prints: the candidates
\* joined by newlines; an empty last candidate makes the text end in a
\* newline, an empty one in the middle makes an empty line
SourceTexts == { Join(l, NL) : l \in CandidateLists }

\* the parsed command line (or the keyword arguments of main)
ArgsSet ==
    [zip_path  : {"/t/out.zip"},
     commit    : {None, "v1"},
     commit2   : {None, "v2"},
     text_file : {None, "/r/m.txt", "/r/nofile.txt"},
     force     : BOOLEAN,
     log_level : {WARNING, INFO}]

\* what `git --version` parses to; <<0, 0, 0>> when the pattern does not match
GitVersions == { <<0, 0, 0>>, <<3, 30, 1>> }

(***************************************************************************)
(* State                                                                   *)
(***************************************************************************)
VARIABLES
    args,           \* the Namespace handed to run
    disk0,          \* whether a file existed at zip_path before the run
    zipDisk,        \* the file at zip_path: state, entries, comment
    zip_file,       \* the ZipFile object: its handle, filelist and comment
    manifest,       \* the manifest file handle: "none", "open", "closed"
    source_text,    \* the text the candidates were read from
    files,          \* the candidates not yet consumed by create_zip_file
    zip_comment,    \* the provenance string, as its formatted pieces
    procs,          \* the command lines of the subprocesses started
    raised,         \* the exception that ended the run, "none" otherwise
    exitCode,       \* the exit status of the process, -1 while running
    pc              \* "run", "create_zip_file", "loop", "exit"

vars == <<args, disk0, zipDisk, zip_file, manifest, source_text, files,
          zip_comment, procs, raised, exitCode, pc>>

NoZipFile == [fp |-> "none", filelist |-> <<>>, comment |-> <<>>]

Init ==
    /\ args \in ArgsSet
    /\ disk0 \in BOOLEAN
    /\ zipDisk = [state |-> IF disk0 THEN "original" ELSE "absent",
                  filelist |-> <<>>, comment |-> <<>>]
    /\ zip_file = NoZipFile
    /\ manifest = "none"
    /\ source_text = <<>>
    /\ files = <<>>
    /\ zip_comment = <<>>
    /\ procs = <<>>
    /\ raised = "none"
    /\ exitCode = -1
    /\ pc = "run"

(***************************************************************************)
(* main: the exit status for an exception that leaves run                  *)
(***************************************************************************)
ExitCodeFor(exc) ==
    CASE exc = "MissingToCommitException" -> EXIT_CODE_NOT_ENOUGH_ARGUMENTS
      [] exc = "FileExistsError" -> EXIT_CODE_FILE_EXISTS
      [] OTHER -> EXIT_CODE_UNCAUGHT

\* the run ends with exception exc: nothing is released on the way out
Raise(exc) ==
    /\ raised' = exc
    /\ exitCode' = ExitCodeFor(exc)
    /\ pc' = "exit"

(***************************************************************************)
(* run                                                                     *)
(***************************************************************************)
\* the comment of a manifest run
TextFileComment(text_file) == <<"Files from ", Format(text_file)>>

\* the comment of a diff run; args.commit is always set where this is
\* computed, so the HEAD branch of the source is never taken
GitDiffComment(commit, commit2) ==
    IF Truthy(commit)
    THEN <<"Files from git diff ", Format(commit), "..", Format(commit2)>>
    ELSE <<"Files from git diff HEAD..", Format(commit)>>

\* the test of the missing-input error looking at the wrong reference
MissingToCommit_commit2(a) == ~Truthy(a.commit2)

\* `if not args.commit`
MissingToCommit(a) == ~Truthy(a.commit)

\* manifest mode, the manifest cannot be opened
RunTextFileNotFound ==
    /\ pc = "run"
    /\ Truthy(args.text_file)
    /\ args.text_file \notin ManifestFiles
    /\ Raise("FileNotFoundError")
    /\ UNCHANGED <<args, disk0, zipDisk, zip_file, manifest, source_text, files,
                   zip_comment, procs>>

\* manifest mode: open the manifest; its lines are the candidates
RunTextFile ==
    /\ pc = "run"
    /\ Truthy(args.text_file)
    /\ args.text_file \in ManifestFiles
    /\ \E text \in SourceTexts :
          /\ source_text' = text
          /\ files' = ReadLines(text)
    /\ zip_comment' = TextFileComment(args.text_file)
    /\ manifest' = "open"
    /\ pc' = "create_zip_file"
    /\ UNCHANGED <<args, disk0, zipDisk, zip_file, procs, raised, exitCode>>

\* neither a manifest nor a reference
RunMissingToCommit ==
    /\ pc = "run"
    /\ ~Truthy(args.text_file)
    /\ MissingToCommit(args)
    /\ Raise("MissingToCommitException")
    /\ UNCHANGED <<args, disk0, zipDisk, zip_file, manifest, source_text, files,
                   zip_comment, procs>>

\* diff mode: with a second reference git is asked for its version, the
\* current branch and the current commit (only a logged warning depends on
\* the answers); then the diff is run and its output split into candidates.
\* At log level INFO the candidates are put into a tuple first, which
\* leaves them as they are.
RunGitDiff ==
    /\ pc = "run"
    /\ ~Truthy(args.text_file)
    /\ ~MissingToCommit(args)
    /\ zip_comment' = GitDiffComment(args.commit, args.commit2)
    /\ \E git_version \in GitVersions, out \in SourceTexts :
          /\ procs' = (IF Truthy(args.commit2)
                       THEN << <<"git", "--version">>,
                               get_current_branch_cmd(git_version),
                               <<"git", "rev-parse", "HEAD">> >>
                       ELSE <<>>)
                      \o << git_diff_cmd(args.commit, args.commit2) >>
          /\ source_text' = out
          /\ files' = get_files_from_git(out)
    /\ pc' = "create_zip_file"
    /\ UNCHANGED <<args, disk0, zipDisk, zip_file, manifest, raised, exitCode>>

(***************************************************************************)
(* create_zip_file                                                         *)
(***************************************************************************)
\* the pre-check that never refuses
ArchiveAlreadyExists_never(overwrite, exists) == FALSE

\* `if not overwrite and zip_path.exists()`
ArchiveAlreadyExists(overwrite, exists) == ~overwrite /\ exists

\* ZipFile.write that replaces an entry of the same name
ZipWrite_replace(filelist, abs, arcname) ==
    SelectSeq(filelist, LAMBDA e : e.filename # arcname)
        \o << [source |-> abs, filename |-> arcname, data |-> FileData(abs)] >>

\* zip_file.write(absolute_source_path, target_path): one more entry, also
\* when the name is already taken
ZipWrite(filelist, abs, arcname) ==
    Append(filelist, [source |-> abs, filename |-> arcname, data |-> FileData(abs)])

\* the archive path exists and overwrite was not asked for
CreateZipFileExists ==
    /\ pc = "create_zip_file"
    /\ ArchiveAlreadyExists(args.force, zipDisk.state # "absent")
    /\ Raise("FileExistsError")
    /\ UNCHANGED <<args, disk0, zipDisk, zip_file, manifest, source_text, files,
                   zip_comment, procs>>

\* ZipFile(zip_path, "w"): the file is created or truncated; the comment is
\* set on the object
CreateZipFileOpen ==
    /\ pc = "create_zip_file"
    /\ ~ArchiveAlreadyExists(args.force, zipDisk.state # "absent")
    /\ zipDisk' = [state |-> "partial", filelist |-> <<>>, comment |-> <<>>]
    /\ zip_file' = [fp |-> "open", filelist |-> <<>>, comment |-> zip_comment]
    /\ pc' = "loop"
    /\ UNCHANGED <<args, disk0, manifest, source_text, files, zip_comment, procs,
                   raised, exitCode>>

\* one iteration: a readable regular file is written
LoopWrite ==
    /\ pc = "loop"
    /\ files # <<>>
    /\ LET absolute_source_path == expand_path(Head(files))
           target_path == TargetPath(getcwd, absolute_source_path)
       IN  /\ is_file(absolute_source_path)
           /\ absolute_source_path \notin UnreadableFiles
           /\ zip_file' = [zip_file EXCEPT
                             !.filelist = ZipWrite(@, absolute_source_path, target_path)]
    /\ files' = Tail(files)
    /\ UNCHANGED <<args, disk0, zipDisk, manifest, source_text, zip_comment, procs,
                   raised, exitCode, pc>>

\* one iteration: the file cannot be read; the error leaves create_zip_file
LoopWriteFails ==
    /\ pc = "loop"
    /\ files # <<>>
    /\ LET absolute_source_path == expand_path(Head(files))
       IN  /\ is_file(absolute_source_path)
           /\ absolute_source_path \in UnreadableFiles
    /\ Raise("PermissionError")
    /\ UNCHANGED <<args, disk0, zipDisk, zip_file, manifest, source_text, files,
                   zip_comment, procs>>

\* one iteration: not a regular file, reported and passed over
LoopSkip ==
    /\ pc = "loop"
    /\ files # <<>>
    /\ ~is_file(expand_path(Head(files)))
    /\ files' = Tail(files)
    /\ UNCHANGED <<args, disk0, zipDisk, zip_file, manifest, source_text,
                   zip_comment, procs, raised, exitCode, pc>>

\* zip_file.close(); run and main return
LoopEnd ==
    /\ pc = "loop"
    /\ files = <<>>
    /\ zip_file' = [zip_file EXCEPT !.fp = "closed"]
    /\ zipDisk' = [state |-> "archive", filelist |-> zip_file.filelist,
                   comment |-> zip_file.comment]
    /\ exitCode' = EXIT_CODE_SUCCESS
    /\ pc' = "exit"
    /\ UNCHANGED <<args, disk0, manifest, source_text, files, zip_comment, procs,
                   raised>>

Next ==
    \/ RunTextFileNotFound
    \/ RunTextFile
    \/ RunMissingToCommit
    \/ RunGitDiff
    \/ CreateZipFileExists
    \/ CreateZipFileOpen
    \/ LoopWrite
    \/ LoopWriteFails
    \/ LoopSkip
    \/ LoopEnd

Spec == Init /\ [][Next]_vars

(***************************************************************************)
(* Vocabulary of the properties                                            *)
(***************************************************************************)
Range(f) == { f[i] : i \in DOMAIN f }

ManifestMode == Truthy(args.text_file)
DiffMode == ~Truthy(args.text_file) /\ Truthy(args.commit)

\* the candidates the provider handed to create_zip_file, and the ones the
\* loop has consumed so far
Candidates == IF ManifestMode THEN ReadLines(source_text) ELSE get_files_from_git(source_text)
Processed == SubSeq(Candidates, 1, Len(Candidates) - Len(files))

\* create_zip_file was entered and got past its pre-check
Building == zip_file.fp # "none"

\* cwd is a strict ancestor of p, component by component
StrictAncestor(cwd, p) ==
    /\ Len(cwd) < Len(p)
    /\ \A i \in 1..Len(cwd) : p[i] = cwd[i]

\* the in-archive name the specification gives a resolved path
ExpectedTarget(cwd, p) ==
    IF StrictAncestor(cwd, p)
    THEN Join([i \in 1..(Len(p) - Len(cwd)) |-> p[Len(cwd) + i]], SEP)
    ELSE IF p = <<>> THEN <<>> ELSE p[Len(p)]

\* the positions of the entries of a given name, and what reading that name
\* from the archive returns (the last entry of the name)
EntriesNamed(filelist, n) == { k \in 1..Len(filelist) : filelist[k].filename = n }
ZipRead(filelist, n) ==
    LET ks == EntriesNamed(filelist, n)
    IN  filelist[CHOOSE k \in ks : \A j \in ks : j <= k].data

(***************************************************************************)
(* C1: with overwrite off and a file already at the archive path,          *)
(* create_zip_file ends in FileExistsError (exit code 4) without opening   *)
(* the archive, and whenever the run ends with that error the file at the  *)
(* archive path is the one that was there before the run.                  *)
(***************************************************************************)
C1_ExistingArchiveUntouched ==
    /\ raised = "FileExistsError" =>
          /\ exitCode = EXIT_CODE_FILE_EXISTS
          /\ ~args.force /\ disk0
          /\ zipDisk = [state |-> "original", filelist |-> <<>>, comment |-> <<>>]
          /\ zip_file = NoZipFile
    /\ (pc \in {"loop", "exit"} /\ ~args.force /\ disk0
            /\ raised \notin {"MissingToCommitException", "FileNotFoundError"})
          => raised = "FileExistsError"

C1_Witness ==
    /\ pc = "exit" /\ raised = "FileExistsError"
    /\ files # <<>> /\ zipDisk.state = "original"

(***************************************************************************)
(* C2: every entry written has as its name the resolved source made        *)
(* relative to the working directory when the working directory is a       *)
(* strict component-wise ancestor of the source, and the base name of the  *)
(* source otherwise.                                                       *)
(***************************************************************************)
C2_TargetPath ==
    \A k \in 1..Len(zip_file.filelist) :
        LET e == zip_file.filelist[k]
        IN  /\ e.filename = ExpectedTarget(getcwd, e.source)
            /\ StrictAncestor(getcwd, e.source) =>
                  getcwd \o Path(e.filename).parts = e.source
            /\ ~StrictAncestor(getcwd, e.source) =>
                  (SEP \notin Range(e.filename) /\ e.filename = e.source[Len(e.source)])

\* an entry from below the working directory and one from /r2, whose path
\* string starts with the working directory's
C2_Witness ==
    /\ Len(zip_file.filelist) = 2
    /\ zip_file.filelist[1].source = << <<"r">>, <<"s">>, <<"b">> >>
    /\ zip_file.filelist[1].filename = <<"s", "/", "b">>
    /\ zip_file.filelist[2].source = << <<"r", "2">>, <<"s">>, <<"b">> >>
    /\ zip_file.filelist[2].filename = <<"b">>

(***************************************************************************)
(* C3: a finished manifest run has one archive entry for every manifest    *)
(* line that names an existing regular file, in order and with the file's  *)
(* bytes; the manifest "a", "s/b" read in /r gives exactly the entries a   *)
(* and s/b.                                                                *)
(***************************************************************************)
C3_ManifestRoundTrip ==
    (pc = "exit" /\ exitCode = EXIT_CODE_SUCCESS /\ ManifestMode) =>
        LET listed == SelectSeq(Split(source_text, NL),
                                LAMBDA l : expand_path(l) \in RegularFiles)
        IN  /\ Len(zipDisk.filelist) = Len(listed)
            /\ \A k \in 1..Len(listed) :
                  /\ zipDisk.filelist[k].source = expand_path(listed[k])
                  /\ zipDisk.filelist[k].data = FileData(expand_path(listed[k]))
            /\ source_text = <<"a", NL, "s", "/", "b">> =>
                  [k \in 1..Len(zipDisk.filelist) |->
                      <<zipDisk.filelist[k].filename, zipDisk.filelist[k].data>>]
                    = << << <<"a">>, "A" >>, << <<"s", "/", "b">>, "B" >> >>

(***************************************************************************)
(* C4: a candidate that is not an existing regular file adds no entry and  *)
(* does not end the build: the entries are exactly the regular files among *)
(* the candidates consumed so far, only a failing write can end the build  *)
(* early, and without one the run ends in success with the archive closed. *)
(***************************************************************************)
C4_SkipMissing ==
    /\ \A k \in 1..Len(zip_file.filelist) : zip_file.filelist[k].source \in RegularFiles
    /\ Building =>
          [k \in 1..Len(zip_file.filelist) |-> zip_file.filelist[k].source]
            = SelectSeq([k \in 1..Len(Processed) |-> expand_path(Processed[k])],
                        LAMBDA q : q \in RegularFiles)
    /\ (Building /\ raised # "none") =>
          /\ raised = "PermissionError"
          /\ files # <<>> /\ expand_path(Head(files)) \in UnreadableFiles
    /\ (Building /\ pc = "exit" /\ raised = "none") =>
          /\ files = <<>> /\ exitCode = EXIT_CODE_SUCCESS
          /\ zip_file.fp = "closed"
          /\ zipDisk.state = "archive" /\ zipDisk.filelist = zip_file.filelist

\* a missing candidate followed by a regular file, in a finished run
C4_Witness ==
    /\ pc = "exit" /\ exitCode = EXIT_CODE_SUCCESS
    /\ Len(Candidates) = 2
    /\ expand_path(Candidates[1]) \notin (RegularFiles \cup UnreadableFiles \cup Directories)
    /\ expand_path(Candidates[2]) \in RegularFiles
    /\ Len(zipDisk.filelist) = 1
    /\ zipDisk.filelist[1].source = expand_path(Candidates[2])

(***************************************************************************)
(* C5 as stated: two distinct regular files outside the working directory  *)
(* with the same base name leave exactly one entry of that name in the     *)
(* finished archive, holding the content of the one written last.          *)
(***************************************************************************)
C5_SingleEntry ==
    (pc = "exit" /\ exitCode = EXIT_CODE_SUCCESS) =>
        \A i, j \in 1..Len(Candidates) :
            LET p == expand_path(Candidates[i])
                q == expand_path(Candidates[j])
            IN  (/\ i < j /\ p # q
                 /\ p \in RegularFiles /\ q \in RegularFiles
                 /\ ~StrictAncestor(getcwd, p) /\ ~StrictAncestor(getcwd, q)
                 /\ p[Len(p)] = q[Len(q)])
                => /\ Cardinality(EntriesNamed(zipDisk.filelist, p[Len(p)])) = 1
                   /\ \E k \in 1..Len(Candidates) :
                         /\ ZipRead(zipDisk.filelist, p[Len(p)])
                              = FileData(expand_path(Candidates[k]))
                         /\ expand_path(Candidates[k]) \in RegularFiles
                         /\ ExpectedTarget(getcwd, expand_path(Candidates[k])) = p[Len(p)]
                         /\ \A m \in (k + 1)..Len(Candidates) :
                               ~(/\ expand_path(Candidates[m]) \in RegularFiles
                                 /\ ExpectedTarget(getcwd, expand_path(Candidates[m]))
                                      = p[Len(p)])

(***************************************************************************)
(* C5 amended: the finished archive holds one entry of a name for every    *)
(* written candidate that maps to the name, in the order written (two for  *)
(* two colliding outside files), and reading the name returns the content  *)
(* of the candidate written last.                                          *)
(***************************************************************************)
C5_EntryPerCandidate ==
    (pc = "exit" /\ exitCode = EXIT_CODE_SUCCESS) =>
        \A n \in { zipDisk.filelist[k].filename : k \in 1..Len(zipDisk.filelist) }
               \cup { ExpectedTarget(getcwd, expand_path(Candidates[k])) :
                         k \in { m \in 1..Len(Candidates) :
                                   expand_path(Candidates[m]) \in RegularFiles } } :
            LET written == SelectSeq(
                    [k \in 1..Len(Candidates) |-> expand_path(Candidates[k])],
                    LAMBDA q : q \in RegularFiles /\ ExpectedTarget(getcwd, q) = n)
                stored == SelectSeq(zipDisk.filelist, LAMBDA e : e.filename = n)
            IN  /\ Len(stored) = Len(written)
                /\ \A k \in 1..Len(written) : stored[k].data = FileData(written[k])
                /\ Len(written) > 0
                /\ ZipRead(zipDisk.filelist, n) = FileData(written[Len(written)])

\* /o/x then /p/x: two entries named x, the second one read back
C5_Witness ==
    /\ pc = "exit" /\ exitCode = EXIT_CODE_SUCCESS
    /\ Len(zipDisk.filelist) = 2
    /\ zipDisk.filelist[1] = [source |-> << <<"o">>, <<"x">> >>, filename |-> <<"x">>,
                              data |-> "X1"]
    /\ zipDisk.filelist[2] = [source |-> << <<"p">>, <<"x">> >>, filename |-> <<"x">>,
                              data |-> "X2"]
    /\ ZipRead(zipDisk.filelist, <<"x">>) = "X2"

(***************************************************************************)
(* C6: with neither a manifest nor a reference the run ends in             *)
(* MissingToCommitException and exit code 2 (not 4), and only then; no     *)
(* subprocess was started, no file opened, the archive path untouched.     *)
(***************************************************************************)
C6_MissingInput ==
    /\ raised = "MissingToCommitException" =>
          /\ ~Truthy(args.text_file) /\ ~Truthy(args.commit)
          /\ exitCode = EXIT_CODE_NOT_ENOUGH_ARGUMENTS
          /\ exitCode # EXIT_CODE_FILE_EXISTS
          /\ procs = <<>>
          /\ manifest = "none"
          /\ zip_file = NoZipFile
          /\ zipDisk = [state |-> IF disk0 THEN "original" ELSE "absent",
                        filelist |-> <<>>, comment |-> <<>>]
    /\ (pc # "run" /\ ~Truthy(args.text_file) /\ ~Truthy(args.commit))
          => raised = "MissingToCommitException"

C6_Witness ==
    /\ pc = "exit" /\ raised = "MissingToCommitException"
    /\ args.text_file = None /\ args.commit = None /\ args.commit2 = None
    /\ disk0

(***************************************************************************)
(* C7: in diff mode the candidates are exactly the maximal newline-free    *)
(* runs of the diff output, in order, none dropped or merged; the output   *)
(* "a\n" (lines "a", "") gives the single candidate a.                     *)
(***************************************************************************)
C7_NonEmptyLines ==
    (pc = "create_zip_file" /\ DiffMode) =>
        LET s == source_text
            starts == { i \in 1..Len(s) : s[i] # NL /\ (i = 1 \/ s[i - 1] = NL) }
            ends == { i \in 1..Len(s) : s[i] # NL /\ (i = Len(s) \/ s[i + 1] = NL) }
            nth(S, k) == CHOOSE x \in S : Cardinality({ y \in S : y < x }) = k - 1
        IN  /\ Len(files) = Cardinality(starts)
            /\ \A k \in 1..Len(files) :
                  files[k] = SubSeq(s, nth(starts, k), nth(ends, k))
            /\ s = <<"a", NL>> => files = << <<"a">> >>

\* the output "a\n": the lines "a" and ""
C7_Witness ==
    /\ pc = "create_zip_file" /\ DiffMode
    /\ source_text = <<"a", NL>>
    /\ Split(source_text, NL) = << <<"a">>, <<>> >>
    /\ files = << <<"a">> >>

(***************************************************************************)
(* C8: expand_path expands "~" and environment-variable references,        *)
(* returns an absolute normalised path, and is idempotent.                 *)
(***************************************************************************)
C8_ExpandPath ==
    (pc = "loop" /\ files # <<>>) =>
        LET p == Head(files)
            r == expand_path(p)
        IN  /\ r = expand_path(expandvars(p))
            /\ <<"~">> \notin Range(r)
            /\ \A i \in 1..Len(r) : r[i] \notin { <<>>, <<".">>, <<".", ".">> }
            /\ expand_path(PathStr(r)) = r

(***************************************************************************)
(* C9: when the run ends, by return or by error, neither the manifest      *)
(* handle nor the archive handle is still open.                            *)
(***************************************************************************)
C9_HandlesClosed ==
    pc = "exit" => (manifest # "open" /\ zip_file.fp # "open")

(***************************************************************************)
(* C10: in diff mode the comment names both references when two are given, *)
(* and the one reference and HEAD, with no placeholder, when one is given. *)
(***************************************************************************)
C10_CommentNamesReferences ==
    (pc # "run" /\ DiffMode) =>
        /\ args.commit \in Range(zip_comment)
        /\ Truthy(args.commit2) => args.commit2 \in Range(zip_comment)
        /\ ~Truthy(args.commit2) =>
              /\ \/ "HEAD" \in Range(zip_comment)
                 \/ "Files from git diff HEAD.." \in Range(zip_comment)
              /\ "None" \notin Range(zip_comment)

=============================================================================
